---- MODULE Spec2Model ----
(***************************************************************************)
(* Finite field arithmetic of src/src/main.rs: the FieldElement value type *)
(* (num, prime), its validating constructor, the four binary operators and *)
(* the square-and-multiply exponentiation.                                 *)
(*                                                                         *)
(* num and prime are signed machine integers.  The source uses i64; the    *)
(* model keeps the two's complement arithmetic and scales the width down   *)
(* to W bits so that the whole value range can be enumerated.  A Rust      *)
(* build either checks arithmetic overflow (the operation panics) or does  *)
(* not (the result wraps); the variable build holds which one it is.       *)
(***************************************************************************)
EXTENDS Integers, Sequences, FiniteSets, TLC

(* ---------------------------------------------------------------- bounds *)
W == 4              \* width in bits of the signed integer type (i64 scaled down)
MaxPrime == 7       \* largest num / prime handed to new
MaxExp == 7         \* largest exponent handed to pow

(* ------------------------------------------------- machine integer (i64) *)
RECURSIVE Pow2(_)
Pow2(n) == IF n = 0 THEN 1 ELSE 2 * Pow2(n - 1)

MinInt == 0 - Pow2(W - 1)
MaxInt == Pow2(W - 1) - 1

InRange(x) == MinInt <= x /\ x <= MaxInt

\* two's complement wrap-around of a mathematical integer
Wrap(x) == ((x - MinInt) % Pow2(W)) + MinInt

\* Rust's % on signed integers: the remainder takes the sign of the dividend
Rem(x, m) == IF x >= 0 THEN x % m ELSE 0 - ((0 - x) % m)

\* the mathematical non-negative residue
Residue(x, m) == x % m

RECURSIVE MathPow(_, _)
MathPow(x, e) == IF e = 0 THEN 1 ELSE x * MathPow(x, e - 1)

IsPrime(p) == p > 1 /\ \A d \in 2..(p - 1) : p % d # 0

(* ------------------------------------------------ FieldElement and Result *)
FieldElement(num, prime) == [num |-> num, prime |-> prime]

NoElement == FieldElement(0, 0)

Ok(e) == [tag |-> "Ok", val |-> e]
Err(kind) == [tag |-> kind, val |-> NoElement]
Panic == [tag |-> "Panic", val |-> NoElement]

Valid(e) == 0 <= e.num /\ e.num < e.prime

(* ------------------------------------------------------- FieldElement::new *)
\* new with the upper bound of the range check off by one
new_InclusiveBound(num, prime) ==
    IF num > prime \/ num < 0
    THEN Err("InvalidElement")
    ELSE Ok(FieldElement(num, prime))

new(num, prime) ==
    IF num >= prime \/ num < 0
    THEN Err("InvalidElement")
    ELSE Ok(FieldElement(num, prime))

(* ------------------------------------------------------- FieldElement::pow *)
\* the while loop: one unfolding per iteration
RECURSIVE PowLoop(_, _, _, _)
PowLoop(exp, base, result, prime) ==
    IF exp > 0
    THEN PowLoop(exp \div 2,
                 Rem(Wrap(base * base), prime),
                 IF exp % 2 = 1 THEN Rem(Wrap(result * base), prime) ELSE result,
                 prime)
    ELSE result

\* some product of the loop leaves the range of the integer type
RECURSIVE PowLoopOverflows(_, _, _, _)
PowLoopOverflows(exp, base, result, prime) ==
    IF exp > 0
    THEN \/ (exp % 2 = 1 /\ ~InRange(result * base))
         \/ ~InRange(base * base)
         \/ PowLoopOverflows(exp \div 2,
                             Rem(Wrap(base * base), prime),
                             IF exp % 2 = 1 THEN Rem(Wrap(result * base), prime) ELSE result,
                             prime)
    ELSE FALSE

\* number of times the loop body runs
RECURSIVE PowLoopIterations(_)
PowLoopIterations(exp) == IF exp > 0 THEN 1 + PowLoopIterations(exp \div 2) ELSE 0

\* pow with a loop that stops one iteration early (exp > 1)
RECURSIVE PowLoopStopsEarly(_, _, _, _)
PowLoopStopsEarly(exp, base, result, prime) ==
    IF exp > 1
    THEN PowLoopStopsEarly(exp \div 2,
                           Rem(Wrap(base * base), prime),
                           IF exp % 2 = 1 THEN Rem(Wrap(result * base), prime) ELSE result,
                           prime)
    ELSE result

pow_StopsEarly(self, exponent) ==
    FieldElement(PowLoopStopsEarly(exponent, self.num, 1, self.prime), self.prime)

pow(self, exponent) ==
    FieldElement(PowLoop(exponent, self.num, 1, self.prime), self.prime)

powOverflows(self, exponent) ==
    PowLoopOverflows(exponent, self.num, 1, self.prime)

(* ---------------------------------------------------------------- Add::add *)
add(self, other) ==
    IF self.prime # other.prime
    THEN Err("DifferentFields")
    ELSE LET num == Rem(Wrap(self.num + other.num), self.prime)
         IN  Ok(FieldElement(num, self.prime))

addOverflows(self, other) ==
    /\ self.prime = other.prime
    /\ ~InRange(self.num + other.num)

(* ---------------------------------------------------------------- Sub::sub *)
\* sub without the second reduction after adding prime
sub_NoSecondReduction(self, other) ==
    IF self.prime # other.prime
    THEN Err("DifferentFields")
    ELSE LET num == Rem(Wrap(self.num - other.num), self.prime)
         IN  Ok(FieldElement(Wrap(num + self.prime), self.prime))

sub(self, other) ==
    IF self.prime # other.prime
    THEN Err("DifferentFields")
    ELSE LET num == Rem(Wrap(self.num - other.num), self.prime)
         IN  Ok(FieldElement(Rem(Wrap(num + self.prime), self.prime), self.prime))

subOverflows(self, other) ==
    /\ self.prime = other.prime
    /\ \/ ~InRange(self.num - other.num)
       \/ ~InRange(Rem(Wrap(self.num - other.num), self.prime) + self.prime)

(* ---------------------------------------------------------------- Mul::mul *)
mul(self, other) ==
    IF self.prime # other.prime
    THEN Err("DifferentFields")
    ELSE LET num == Rem(Wrap(self.num * other.num), self.prime)
         IN  Ok(FieldElement(num, self.prime))

mulOverflows(self, other) ==
    /\ self.prime = other.prime
    /\ ~InRange(self.num * other.num)

(* ---------------------------------------------------------------- Div::div *)
\* div without the comparison of the two primes
div_NoFieldCheck(self, other) ==
    LET num == Rem(Wrap(self.num * pow(other, Wrap(self.prime - 2)).num), self.prime)
    IN  Ok(FieldElement(num, self.prime))

div(self, other) ==
    IF self.prime # other.prime
    THEN Err("DifferentFields")
    ELSE LET num == Rem(Wrap(self.num * pow(other, Wrap(self.prime - 2)).num), self.prime)
         IN  Ok(FieldElement(num, self.prime))

divOverflows(self, other) ==
    /\ self.prime = other.prime
    /\ \/ ~InRange(self.prime - 2)
       \/ powOverflows(other, Wrap(self.prime - 2))
       \/ ~InRange(self.num * pow(other, Wrap(self.prime - 2)).num)

(* ------------------------------------------------------------------ state *)
VARIABLES
    build,      \* "debug": overflow checks on (panic); "release": off (wrap)
    a, b,       \* the two elements the program holds
    last        \* the last call: operation, operands, exponent, overflow, outcome

vars == <<build, a, b, last>>

Builds == {"debug", "release"}
\* the arguments of a call are values of the integer type
Nums == {n \in (0 - 1)..MaxPrime : InRange(n)}
Primes == {p \in (0 - 1)..MaxPrime : InRange(p)}
Exponents == {e \in (0 - 2)..MaxExp : InRange(e)}

Call(op, lhs, rhs, exp, ovf, out) ==
    [op |-> op, lhs |-> lhs, rhs |-> rhs, exp |-> exp, ovf |-> ovf, out |-> out]

\* what the caller observes: a checked build panics on overflow
Outcome(ovf, r) == IF ovf /\ build = "debug" THEN Panic ELSE r

\* the program keeps a returned element in a
Keep(out) == IF out.tag = "Ok" THEN out.val ELSE a

\* main unwraps every Result (lines 110-123): it stops at the first error
\* returned, as it does at an overflow panic
Running == last.out.tag \in {"Ok", "None"}

\* main, lines 110-111: two elements obtained from successful calls of new
Init ==
    /\ build \in Builds
    /\ \E n1 \in Nums, p1 \in Primes, n2 \in Nums, p2 \in Primes :
          /\ new(n1, p1).tag = "Ok"
          /\ new(n2, p2).tag = "Ok"
          /\ a = new(n1, p1).val
          /\ b = new(n2, p2).val
    /\ last = Call("none", NoElement, NoElement, 0, FALSE, Err("None"))

New(num, prime) ==
    /\ Running
    /\ LET out == new(num, prime)
       IN  /\ last' = Call("new", FieldElement(num, prime), NoElement, 0, FALSE, out)
           /\ b' = IF out.tag = "Ok" THEN out.val ELSE b
    /\ UNCHANGED <<build, a>>

DoAdd ==
    /\ Running
    /\ LET out == Outcome(addOverflows(a, b), add(a, b))
       IN  /\ last' = Call("add", a, b, 0, addOverflows(a, b), out)
           /\ a' = Keep(out)
    /\ UNCHANGED <<build, b>>

DoSub ==
    /\ Running
    /\ LET out == Outcome(subOverflows(a, b), sub(a, b))
       IN  /\ last' = Call("sub", a, b, 0, subOverflows(a, b), out)
           /\ a' = Keep(out)
    /\ UNCHANGED <<build, b>>

DoMul ==
    /\ Running
    /\ LET out == Outcome(mulOverflows(a, b), mul(a, b))
       IN  /\ last' = Call("mul", a, b, 0, mulOverflows(a, b), out)
           /\ a' = Keep(out)
    /\ UNCHANGED <<build, b>>

DoDiv ==
    /\ Running
    /\ LET out == Outcome(divOverflows(a, b), div(a, b))
       IN  /\ last' = Call("div", a, b, 0, divOverflows(a, b), out)
           /\ a' = Keep(out)
    /\ UNCHANGED <<build, b>>

DoPow(exponent) ==
    /\ Running
    /\ LET out == Outcome(powOverflows(a, exponent), Ok(pow(a, exponent)))
       IN  /\ last' = Call("pow", a, NoElement, exponent, powOverflows(a, exponent), out)
           /\ a' = Keep(out)
    /\ UNCHANGED <<build, b>>

\* a and b are Copy values: the program may use them in either order
Swap ==
    /\ Running
    /\ a' = b
    /\ b' = a
    /\ last' = Call("none", NoElement, NoElement, 0, FALSE, Err("None"))
    /\ UNCHANGED build

Next ==
    \/ \E num \in Nums, prime \in Primes : New(num, prime)
    \/ DoAdd
    \/ DoSub
    \/ DoMul
    \/ DoDiv
    \/ \E exponent \in Exponents : DoPow(exponent)
    \/ Swap

Spec == Init /\ [][Next]_vars

(* ------------------------------------------------------------- properties *)
BinaryOps == {"add", "sub", "mul", "div"}

Num == last.lhs.num
Prime == last.lhs.prime

\* both operands of the last binary call are elements of the same field
SameField == Valid(last.lhs) /\ Valid(last.rhs) /\ last.lhs.prime = last.rhs.prime

\* C1: new(num, prime) returns Ok exactly when 0 <= num < prime, the element
\* then holds the given num and prime; every other call returns InvalidElement.
C1_ConstructionRange ==
    last.op = "new" =>
        /\ (last.out.tag = "Ok") <=> (0 <= Num /\ Num < Prime)
        /\ last.out.tag = "Ok" => last.out.val = FieldElement(Num, Prime)
        /\ last.out.tag # "Ok" => last.out.tag = "InvalidElement"

C1_Witness ==
    /\ last.op = "new"
    /\ last.out.tag = "InvalidElement"
    /\ Num = Prime
    /\ Prime > 1

\* C2: a binary operation on valid elements of different primes returns
\* DifferentFields; on elements of the same prime it never does.
C2_FieldMismatch ==
    (last.op \in BinaryOps /\ Valid(last.lhs) /\ Valid(last.rhs)) =>
        (last.out.tag = "DifferentFields") <=> (last.lhs.prime # last.rhs.prime)

C2_Witness ==
    /\ last.op = "div"
    /\ Valid(last.lhs) /\ Valid(last.rhs)
    /\ last.lhs.prime # last.rhs.prime
    /\ last.out.tag = "DifferentFields"

\* C3: starting from elements of new with prime > 1, every element returned by
\* a sequence of add, sub, mul, div and pow has 0 <= num < prime and the prime
\* of its operands.
C3_Closure ==
    /\ a.prime > 1 => Valid(a)
    /\ b.prime > 1 => Valid(b)
    /\ (last.op \in BinaryOps \cup {"pow"} /\ last.out.tag = "Ok") =>
           last.out.val.prime = last.lhs.prime

\* C4: add, sub and mul of valid elements of one field return the non-negative
\* residue of the sum, difference and product of the nums modulo the prime.
C4_Residues ==
    SameField =>
        /\ last.op = "add" =>
               last.out = Ok(FieldElement(Residue(Num + last.rhs.num, Prime), Prime))
        /\ last.op = "sub" =>
               last.out = Ok(FieldElement(Residue(Num - last.rhs.num, Prime), Prime))
        /\ last.op = "mul" =>
               last.out = Ok(FieldElement(Residue(Num * last.rhs.num, Prime), Prime))

\* C5: pow with an exponent e >= 0 returns num^e mod prime in the same field;
\* with a negative exponent the loop body never runs and pow returns num 1.
C5_Pow ==
    (last.op = "pow" /\ Valid(last.lhs) /\ Prime > 1) =>
        IF last.exp >= 0
        THEN last.out = Ok(FieldElement(Residue(MathPow(Num, last.exp), Prime), Prime))
        ELSE /\ PowLoopIterations(last.exp) = 0
             /\ last.out = Ok(FieldElement(1, Prime))

\* C6: in a field of prime order, a / a is the element 1 for every a.num # 0.
C6_InverseRoundTrip ==
    (last.op = "div" /\ IsPrime(Prime) /\ SameField /\ last.rhs = last.lhs /\ Num # 0) =>
        last.out = Ok(FieldElement(1, Prime))

\* C7: in a field of prime order p, a.pow(p - 1) is the element 1 for every
\* a.num # 0 (Fermat's Little Theorem).
C7_Fermat ==
    (last.op = "pow" /\ IsPrime(Prime) /\ Valid(last.lhs) /\ Num # 0
        /\ last.exp = Prime - 1) =>
        last.out = Ok(FieldElement(1, Prime))

\* C8: a + FieldElement(0, p) is a, and a - a is FieldElement(0, p), for
\* every valid element a.
C8_AdditiveIdentityInverse ==
    /\ (last.op = "add" /\ Valid(last.lhs) /\ last.rhs = FieldElement(0, Prime)) =>
           last.out = Ok(last.lhs)
    /\ (last.op = "sub" /\ Valid(last.lhs) /\ last.rhs = last.lhs) =>
           last.out = Ok(FieldElement(0, Prime))

C8_Witness ==
    /\ last.op = "sub"
    /\ Valid(last.lhs)
    /\ last.rhs = last.lhs
    /\ Num > 0
    /\ last.out = Ok(FieldElement(0, Prime))

\* the last call divided a valid element of a prime field by its zero element
DivByZeroElement ==
    /\ last.op = "div"
    /\ IsPrime(Prime)
    /\ Valid(last.lhs)
    /\ last.rhs = FieldElement(0, Prime)

\* the inverse div computes for the divisor of the last call
Inverse == pow(last.rhs, Wrap(Prime - 2)).num

\* C9 as stated: for every prime p, the inverse of the zero element computes
\* as 0 and a / FieldElement(0, p) returns FieldElement(0, p), not an error.
C9_DivByZero_Original ==
    DivByZeroElement =>
        /\ Inverse = 0
        /\ last.out = Ok(FieldElement(0, Prime))

\* C9, amended: for every prime p > 2, the inverse of the zero element computes
\* as 0 and a / FieldElement(0, p) returns FieldElement(0, p), not an error.
C9_DivByZero ==
    (DivByZeroElement /\ Prime > 2) =>
        /\ Inverse = 0
        /\ last.out = Ok(FieldElement(0, Prime))

C9_Witness ==
    /\ DivByZeroElement
    /\ Prime > 2
    /\ Num > 0
    /\ last.out = Ok(FieldElement(0, Prime))

\* C10: the products computed before reduction in mul, div and pow stay in the
\* range of the signed integer type, for every valid element of the type.
C10_NoOverflow ==
    /\ (last.op \in {"mul", "div"} /\ SameField) => ~last.ovf
    /\ (last.op = "pow" /\ Valid(last.lhs)) => ~last.ovf

====
